---- MODULE Spec2Model ----
(***************************************************************************)
(* Model of the LSP resolver layer of deno-lib (src/deno_lib/lsp/          *)
(* resolver.rs): the redirect resolver (RedirectResolver::new, resolve,    *)
(* chain, did_cache) and the snapshot of the scope resolver that owns it,  *)
(* and of run_script (src/deno_lib/lib.rs).                                *)
(***************************************************************************)
EXTENDS Integers, Sequences, FiniteSets, TLC

\* ------------------------------------------------------------------------
\* Bounds of the model
\* ------------------------------------------------------------------------
\* File names of the URLs of one directory are 0..MaxName.
MaxName == 12
\* Largest number of entries of a lockfile "redirects" section.
MaxLock == 2
\* Largest number of writes the environment makes to the HTTP cache.
MaxStores == 1
\* The calls of the model ask for the URLs (0,0)..(0,MaxQuery) of the line,
\* for (1,0) and for the file URL; lines of at most MaxQuery redirects are
\* started with every kind of end.
MaxQuery == 2

\* The deepest scope root has MaxDepth path segments, and a workspace has
\* at most MaxScopes scopes.
MaxDepth == 2
MaxScopes == 2

\* A package manifest declares at most MaxDeps dependencies, named
\* 1..MaxDeps.
MaxDeps == 2

\* ------------------------------------------------------------------------
\* Program constants
\* ------------------------------------------------------------------------
\* `if chain.len() > 10` in RedirectResolver::resolve.
HopLimit == 10

\* ------------------------------------------------------------------------
\* Values
\* ------------------------------------------------------------------------
\* A Url is scheme://host/dir/name; the model keeps the parts that the
\* resolver looks at: the scheme and, for relative references, the
\* directory and the file name.
Url(s, d, n) == [scheme |-> s, dir |-> d, name |-> n]
HttpUrl(d, n) == Url("https", d, n)
FileUrl == Url("file", 0, 0)
\* Option<Url>::None, and the Err of a URL parse.
NoUrl == Url("none", 0, 0)
\* A string that is not a URL (lockfile text that does not parse).
BadString == Url("invalid", 0, 0)

Dirs == 0..1
Names == 0..MaxName
HttpUrls == {HttpUrl(d, n) : d \in Dirs, n \in Names}
AllUrls == HttpUrls \cup {FileUrl}

\* The value of a "location" header: absent, an absolute URL, a relative
\* reference "./name", or text that resolve_import rejects.
NoLocation == [kind |-> "none", dir |-> 0, name |-> 0]
AbsLocation(d, n) == [kind |-> "abs", dir |-> d, name |-> n]
RelLocation(n) == [kind |-> "rel", dir |-> 0, name |-> n]
BadLocation == [kind |-> "bad", dir |-> 0, name |-> 0]

\* What the header provider answers for a URL: None, or Some(headers).
NoHeaders == [served |-> FALSE, location |-> NoLocation]
Headers(loc) == [served |-> TRUE, location |-> loc]

\* The value of a table entry, Option<Arc<RedirectEntry>>:
\* None (the URL does not redirect) or Some(RedirectEntry).
NoneEntry ==
  [kind |-> "none", headers |-> NoLocation, target |-> NoUrl,
   destination |-> NoUrl]
RedirectEntry(h, t, d) ==
  [kind |-> "some", headers |-> h, target |-> t, destination |-> d]

\* DashMap::insert
Insert(tbl, k, v) ==
  [x \in (DOMAIN tbl) \cup {k} |-> IF x = k THEN v ELSE tbl[x]]

EmptyTable == [x \in {} |-> NoneEntry]

\* ModuleSpecifier::parse of a lockfile string.
Parse(s) == IF s.scheme \in {"https", "file"} THEN s ELSE NoUrl

\* deno_core::resolve_import(location, base): an absolute URL is taken as
\* it is, "./name" replaces the file name of the base, anything else fails.
ResolveImport(loc, base) ==
  CASE loc.kind = "abs" -> HttpUrl(loc.dir, loc.name)
    [] loc.kind = "rel" -> Url(base.scheme, base.dir, loc.name)
    [] OTHER -> NoUrl

VARIABLES
  headers,    \* the HTTP cache read by get_headers: Url -> Option<headers>
  lockfile,   \* the "redirects" section the resolver was constructed from
  entries,    \* RedirectResolver.entries
  snapshot,   \* the scope resolver returned by snapshot(), if any
  stores,     \* number of writes made to the HTTP cache
  last,       \* the last call made on the resolver and what it returned
  unscoped,   \* LspResolver.unscoped
  by_scope,   \* LspResolver.by_scope: scope root -> LspScopeResolver
  inserted,   \* the scope roots in the order from_config inserted them
  routed,     \* the last call made on the LspResolver and what it did
  tasks,      \* the resolve calls that run concurrently on the resolver
  walk,       \* the loop of a chain call in progress
  cjs,        \* an LspCjsTracker, the arguments of is_cjs and its result
  pkg,        \* a scope resolver built from a package manifest
  run         \* the flags and the outcomes of one run_script, and its result

\* The state of one RedirectResolver and its cache, and of the LspResolver
\* that routes to the scope resolvers.
redirectVars == <<headers, lockfile, entries, snapshot, stores, last>>
scopeVars == <<unscoped, by_scope, inserted, routed>>
auxVars == <<walk, cjs, pkg, run>>
vars == <<headers, lockfile, entries, snapshot, stores, last,
          unscoped, by_scope, inserted, routed, tasks, walk, cjs, pkg, run>>

\* ------------------------------------------------------------------------
\* RedirectResolver
\* ------------------------------------------------------------------------
\* A get_headers that answers empty headers for a URL the cache lacks.
GetHeadersOrEmpty(hdrs, u) ==
  IF u \in DOMAIN hdrs /\ hdrs[u].served THEN hdrs[u] ELSE Headers(NoLocation)

\* The get_headers closure built by RedirectResolver::new.
GetHeaders(hdrs, u) == IF u \in DOMAIN hdrs THEN hdrs[u] ELSE NoHeaders

\* A seeding loop that stops at the first string that is not a URL.
RECURSIVE SeedBreak(_, _, _)
SeedBreak(tbl, lock, i) ==
  IF i > Len(lock) THEN tbl
  ELSE
    LET source == Parse(lock[i][1])
        destination == Parse(lock[i][2])
    IN IF source = NoUrl \/ destination = NoUrl THEN tbl
       ELSE SeedBreak(Insert(Insert(tbl, source,
                                    RedirectEntry(NoLocation, destination,
                                                  destination)),
                             destination, NoneEntry),
                      lock, i + 1)

\* RedirectResolver::new: the loop over lockfile.content.redirects.
RECURSIVE Seed(_, _, _)
Seed(tbl, lock, i) ==
  IF i > Len(lock) THEN tbl
  ELSE
    LET source == Parse(lock[i][1])
        destination == Parse(lock[i][2])
    IN IF source = NoUrl THEN Seed(tbl, lock, i + 1)
       ELSE IF destination = NoUrl THEN Seed(tbl, lock, i + 1)
       ELSE Seed(Insert(Insert(tbl, source,
                               RedirectEntry(NoLocation, destination,
                                             destination)),
                        destination, NoneEntry),
                 lock, i + 1)

New(lock) == Seed(EmptyTable, lock, 1)

\* A hop test that gives up three hops later.
TooManyHopsLate(chain) == Len(chain) > HopLimit + 3

\* The hop test of the walk: true when the walk gives up.
TooManyHops(chain) == Len(chain) > HopLimit

\* The loop of RedirectResolver::resolve. The result is the value the loop
\* breaks with, the chain collected so far, the table (changed only by the
\* insert of a terminus), the number of get_headers calls and the branch
\* the loop left by.
RECURSIVE Walk(_, _, _, _, _, _)
Walk(tbl, hdrs, specifier, current, chain, calls) ==
  IF current \in DOMAIN tbl
  THEN [destination |-> IF tbl[current].kind = "some"
                        THEN tbl[current].destination ELSE current,
        chain |-> chain, entries |-> tbl, calls |-> calls,
        end |-> IF tbl[current].kind = "some" THEN "entry" ELSE "marker"]
  ELSE
    LET h == GetHeaders(hdrs, current) IN
    IF ~h.served
    THEN [destination |-> NoUrl, chain |-> chain, entries |-> tbl,
          calls |-> calls + 1, end |-> "unserved"]
    ELSE IF h.location.kind # "none"
    THEN IF TooManyHops(chain)
         THEN [destination |-> NoUrl, chain |-> chain, entries |-> tbl,
               calls |-> calls + 1, end |-> "hops"]
         ELSE LET target == ResolveImport(h.location, specifier) IN
              IF target = NoUrl
              THEN [destination |-> NoUrl, chain |-> chain, entries |-> tbl,
                    calls |-> calls + 1, end |-> "bad"]
              ELSE Walk(tbl, hdrs, specifier, target,
                        Append(chain,
                               <<current,
                                 RedirectEntry(h.location, target, NoUrl)>>),
                        calls + 1)
    ELSE [destination |-> current, chain |-> chain,
          entries |-> Insert(tbl, current, NoneEntry),
          calls |-> calls + 1, end |-> "terminal"]

\* A write-back that leaves the entry as the walk pushed it.
BackFillNone(entry, destination) == entry

\* The value the loop's destination is written back with.
BackFill(entry, destination) ==
  [entry EXCEPT !.destination = destination]

\* The `for (specifier, mut entry) in chain` loop after the walk.
RECURSIVE Memoize(_, _, _, _)
Memoize(tbl, chain, destination, i) ==
  IF i > Len(chain) THEN tbl
  ELSE Memoize(Insert(tbl, chain[i][1], BackFill(chain[i][2], destination)),
               chain, destination, i + 1)

\* A scheme test that lets no URL pass through.
NotHttpNever(specifier) == FALSE

\* The scheme test at the head of resolve: true for a URL that is returned
\* as it is.
NotHttp(specifier) == specifier.scheme \notin {"http", "https"}

\* RedirectResolver::resolve
Resolve(tbl, hdrs, specifier) ==
  IF NotHttp(specifier)
  THEN [result |-> specifier, entries |-> tbl, calls |-> 0,
        end |-> "scheme", visited |-> << >>]
  ELSE
    LET w == Walk(tbl, hdrs, specifier, specifier, << >>, 0) IN
    [result |-> w.destination,
     entries |-> Memoize(w.entries, w.chain, w.destination, 1),
     calls |-> w.calls, end |-> w.end,
     visited |-> [i \in 1..Len(w.chain) |-> w.chain[i][1]]]

\* A test that never finds the target among the URLs seen.
SeenTargetNever(entry, seen) == FALSE

\* `seen.contains(&entry.target)`, after the insert of the current URL.
SeenTarget(entry, seen) == entry.target \in seen

\* The loop of RedirectResolver::chain over the table left by resolve.
RECURSIVE ChainLoop(_, _, _, _)
ChainLoop(tbl, current, seen, result) ==
  IF current \notin DOMAIN tbl THEN result
  ELSE IF tbl[current].kind # "some" THEN result
  ELSE IF SeenTarget(tbl[current], seen \cup {current})
  THEN Append(result, <<current, tbl[current]>>)
  ELSE ChainLoop(tbl, tbl[current].target, seen \cup {current},
                 Append(result, <<current, tbl[current]>>))

\* RedirectResolver::chain
Chain(tbl, hdrs, specifier) ==
  LET r == Resolve(tbl, hdrs, specifier) IN
  [result |-> ChainLoop(r.entries, specifier, {}, << >>),
   entries |-> r.entries, calls |-> r.calls]

\* The predicate of the retain in RedirectResolver::did_cache.
Retained(entry) == entry.kind = "some"

\* RedirectResolver::did_cache
DidCacheTable(tbl) ==
  [x \in {k \in DOMAIN tbl : Retained(tbl[k])} |-> tbl[x]]

\* ------------------------------------------------------------------------
\* LspScopeResolver::snapshot
\* ------------------------------------------------------------------------
\* The one RedirectResolver object of the scope; `entries` is its table.
LiveRedirectResolver == 1
NoSnapshot == [taken |-> FALSE, redirect_resolver |-> 0]

\* redirect_resolver: self.redirect_resolver.clone() clones the Arc, so
\* the snapshot refers to the live object.
SnapshotOf(redirect_resolver) ==
  [taken |-> TRUE, redirect_resolver |-> redirect_resolver]

\* The table a query through the snapshot reads.
SnapshotEntries ==
  IF snapshot.redirect_resolver = LiveRedirectResolver
  THEN entries ELSE EmptyTable

\* ------------------------------------------------------------------------
\* Initial states: a header provider, a lockfile, and the resolver
\* constructed from them.
\* ------------------------------------------------------------------------
\* A line of redirects (0,0) -> (0,1) -> ... -> (0,len) in directory 0,
\* with relative or absolute locations; `end` says what the provider has
\* for the last URL of the line. With `side`, (1,0) redirects into the line
\* and (1,1) is served without a location.
LineEnd(len, end) ==
  CASE end = "terminal" -> Headers(NoLocation)
    [] end = "loop" -> Headers(AbsLocation(0, 0))
    [] end = "bad" -> Headers(BadLocation)
    [] OTHER -> NoHeaders

Provider(len, rel, end, side) ==
  [u \in HttpUrls |->
     IF u.dir = 0 /\ u.name < len
     THEN Headers(IF rel THEN RelLocation(u.name + 1)
                  ELSE AbsLocation(0, u.name + 1))
     ELSE IF u.dir = 0 /\ u.name = len THEN LineEnd(len, end)
     ELSE IF side /\ u = HttpUrl(1, 0) THEN Headers(AbsLocation(0, 0))
     ELSE IF side /\ u = HttpUrl(1, 1) THEN Headers(NoLocation)
     ELSE NoHeaders]

\* The providers the model starts from: every shape of a short line, and
\* the long lines around the hop limit.
Scenario(len, rel, end, side) ==
  \/ len <= MaxQuery /\ (side => rel)
  \/ len >= HopLimit /\ rel /\ ~side /\ end \in {"terminal", "unserved"}

Providers ==
  {Provider(len, rel, end, side) :
     <<len, rel, end, side>> \in
       {p \in Names \X BOOLEAN \X {"terminal", "unserved", "loop", "bad"}
               \X BOOLEAN : Scenario(p[1], p[2], p[3], p[4])}}

\* The providers a resolver with a seeded table is started with.
SeededProviders ==
  {Provider(1, TRUE, "unserved", FALSE), Provider(3, TRUE, "terminal", FALSE)}

\* The strings of the lockfile: sources and destinations, and the position
\* of a source in the key order of the redirects map.
LockSources == {HttpUrl(0, 0), HttpUrl(0, 1), BadString}
LockDestinations == {HttpUrl(0, 0), HttpUrl(0, 1), HttpUrl(0, 2), BadString}
KeyRank(s) == IF s = BadString THEN MaxName + 1 ELSE s.name

Lockfiles ==
  {lock \in UNION {[1..n -> LockSources \X LockDestinations] :
                     n \in 0..MaxLock} :
     \A i, j \in 1..Len(lock) :
        i < j => KeyRank(lock[i][1]) < KeyRank(lock[j][1])}

\* ------------------------------------------------------------------------
\* LspScopeResolver and LspResolver
\* ------------------------------------------------------------------------
\* A file URL is the sequence of its path segments. A scope root is a
\* directory, file:///s1/.../sn/; a referrer is a file, whose last segment
\* is the file name. Option<ModuleSpecifier>::None is the empty sequence.
Segments == {1, 2}

RECURSIVE PathsOfLen(_)
PathsOfLen(n) ==
  IF n = 0 THEN {<< >>}
  ELSE {Append(p, s) : p \in PathsOfLen(n - 1), s \in Segments}

ScopeRoots == UNION {PathsOfLen(n) : n \in 1..MaxDepth}
Referrers == UNION {PathsOfLen(n) : n \in 1..MaxDepth + 1}
NoReferrer == << >>
NoScope == << >>

\* Ord of two scope roots, the order of the keys of a BTreeMap: the order
\* of the serialized URLs, in which a directory comes before what it holds.
RECURSIVE ScopeLess(_, _)
ScopeLess(a, b) ==
  IF a = << >> THEN b # << >>
  ELSE IF b = << >> THEN FALSE
  ELSE IF Head(a) = Head(b) THEN ScopeLess(Tail(a), Tail(b))
  ELSE Head(a) < Head(b)

\* BTreeMap::iter / BTreeMap::values: the keys in ascending order.
RECURSIVE SortedKeys(_)
SortedKeys(S) ==
  IF S = {} THEN << >>
  ELSE LET m == CHOOSE x \in S : \A y \in S \ {x} : ScopeLess(x, y)
       IN <<m>> \o SortedKeys(S \ {m})

\* Option<Arc<ConfigData>>: None, or the data of the scope at a root. The
\* scope at file:///2/ brings its own node_modules.
\* maybe_pkg_json() is the scope's manifest, whose dependencies are its
\* declared names in the order of the manifest; installed[name] is the
\* file a declared name resolves to in the scope's install tree, if any.
DepNames == 1..MaxDeps
PkgFile(n) == Url("file", 1, n)
NoName == 0
NoConfigData ==
  [present |-> FALSE, scope |-> NoScope, byonm |-> FALSE,
   pkg_json |-> [present |-> FALSE, dependencies |-> << >>],
   installed |-> [n \in DepNames |-> NoUrl]]
ConfigData(root) ==
  [NoConfigData EXCEPT !.present = TRUE, !.scope = root,
                       !.byonm = (root = <<2>>)]

\* ConfigData::scope_contains_specifier: the scope root contains the URL.
ScopeContainsSpecifier(d, specifier) ==
  /\ Len(d.scope) < Len(specifier)
  /\ SubSeq(specifier, 1, Len(d.scope)) = d.scope

\* LspScopeResolver::default
DefaultScopeResolver ==
  [config_data |-> NoConfigData, npm_resolver |-> "none",
   package_reqs |-> {}, redirect_resolver |-> FALSE, entries |-> EmptyTable,
   cjs_tracker |-> FALSE, node_resolver |-> FALSE, jsr_resolver |-> FALSE,
   jsr_memo |-> FALSE, package_json_deps_by_resolution |-> << >>]

\* create_npm_resolver: bring-your-own or managed, by the scope's config.
CreateNpmResolver(d) == IF d.present /\ d.byonm THEN "byonm" ELSE "managed"

\* CliNodeResolver::resolve_req_reference for "npm:<name>": the file of
\* the scope's install tree, looked up from the referrer; a tree the
\* scope brings along is found from referrers inside the scope only.
ResolveReqReference(d, name, referrer) ==
  IF d.byonm /\ ~ScopeContainsSpecifier(d, referrer) THEN NoUrl
  ELSE d.installed[name]

\* into_specifier_and_media_type
IntoSpecifierAndMediaType(u) == [specifier |-> u, media_type |-> "Dts"]

\* The referrer of the resolutions of the index: package_json.specifier(),
\* a file in the root of the scope.
PkgJsonSpecifier(d) == Append(d.scope, 1)

\* IndexMap::insert: the value of a key that is there is replaced where
\* it stands, a new key goes to the end.
IndexInsert(m, k, v) ==
  IF \E i \in DOMAIN m : m[i].key = k
  THEN [i \in DOMAIN m |-> IF m[i].key = k THEN [key |-> k, value |-> v]
                            ELSE m[i]]
  ELSE Append(m, [key |-> k, value |-> v])

\* IndexMap::get
IndexGet(m, k) ==
  IF \E i \in DOMAIN m : m[i].key = k
  THEN m[CHOOSE i \in DOMAIN m : m[i].key = k].value
  ELSE NoName

\* An index in which the first name that resolves to a file keeps it.
RECURSIVE CollectDepsFirstWins(_, _, _)
CollectDepsFirstWins(m, d, deps) ==
  IF deps = << >> THEN m
  ELSE LET name == Head(deps)
           resolved == ResolveReqReference(d, name, PkgJsonSpecifier(d))
           specifier == IntoSpecifierAndMediaType(resolved).specifier
       IN CollectDepsFirstWins(
            IF resolved = NoUrl \/ IndexGet(m, specifier) # NoName THEN m
            ELSE IndexInsert(m, specifier, name),
            d, Tail(deps))

\* dependencies.iter().flat_map(..).collect(): a name that does not
\* resolve is passed over, the others are inserted in manifest order.
RECURSIVE CollectDeps(_, _, _)
CollectDeps(m, d, deps) ==
  IF deps = << >> THEN m
  ELSE LET name == Head(deps)
           resolved == ResolveReqReference(d, name, PkgJsonSpecifier(d))
           specifier == IntoSpecifierAndMediaType(resolved).specifier
       IN CollectDeps(IF resolved = NoUrl THEN m
                      ELSE IndexInsert(m, specifier, name),
                      d, Tail(deps))

\* The closure that computes package_json_deps_by_resolution.
PackageJsonDepsByResolution(d, node_resolver) ==
  IF ~node_resolver \/ ~d.present \/ ~d.pkg_json.present THEN << >>
  ELSE CollectDeps(<< >>, d, d.pkg_json.dependencies)

\* LspScopeResolver::from_config_data for a scope without lockfile.
LspScopeResolverFromConfigData(d, http_client_provider) ==
  LET npm_resolver == IF http_client_provider THEN CreateNpmResolver(d)
                      ELSE "none"
      node_resolver == npm_resolver # "none"
  IN [config_data |-> d, npm_resolver |-> npm_resolver,
      package_reqs |-> {}, redirect_resolver |-> TRUE,
      entries |-> New(<< >>),
      cjs_tracker |-> npm_resolver # "none",
      node_resolver |-> node_resolver,
      jsr_resolver |-> TRUE, jsr_memo |-> FALSE,
      package_json_deps_by_resolution |->
        PackageJsonDepsByResolution(d, node_resolver)]

\* LspScopeResolver::from_config_data with an HTTP client provider.
FromConfigData(d) == LspScopeResolverFromConfigData(d, TRUE)

\* A snapshot that loses the CJS tracker.
LspScopeResolverSnapshotNoTracker(r) ==
  [r EXCEPT !.cjs_tracker = FALSE,
            !.node_resolver = r.npm_resolver # "none"]

\* LspScopeResolver::snapshot: the package resolver is snapshotted, the
\* node resolver and the CJS tracker are built again when there is one,
\* and the other parts are cloned.
LspScopeResolverSnapshot(r) ==
  [r EXCEPT !.cjs_tracker = r.npm_resolver # "none",
            !.node_resolver = r.npm_resolver # "none"]

\* The loop of LspResolver::from_config over the scopes of the config tree.
RECURSIVE InsertScopes(_, _)
InsertScopes(m, order) ==
  IF order = << >> THEN m
  ELSE InsertScopes(Insert(m, Head(order),
                           FromConfigData(ConfigData(Head(order)))),
                    Tail(order))

\* LspResolver::default and LspResolver::from_config
DefaultLspResolver == [unscoped |-> DefaultScopeResolver, by_scope |-> << >>]
FromConfig(order) ==
  [unscoped |-> FromConfigData(NoConfigData),
   by_scope |-> InsertScopes(<< >>, order)]

\* The closure of get_scope_resolver: the scope's config data contains the
\* referrer.
ContainsReferrer(r, file_referrer) ==
  r.config_data.present /\ ScopeContainsSpecifier(r.config_data, file_referrer)

\* Iterator::rfind over the scopes listed by keys.
RECURSIVE RFind(_, _, _)
RFind(bs, keys, file_referrer) ==
  IF keys = << >> THEN NoScope
  ELSE IF ContainsReferrer(bs[keys[Len(keys)]], file_referrer)
       THEN keys[Len(keys)]
       ELSE RFind(bs, SubSeq(keys, 1, Len(keys) - 1), file_referrer)

\* A get_scope_resolver that takes the first matching scope (find in the
\* place of rfind).
GetScopeResolverFirst(bs, file_referrer) ==
  LET matching == {s \in DOMAIN bs : ContainsReferrer(bs[s], file_referrer)}
  IN IF file_referrer = NoReferrer \/ matching = {} THEN NoScope
     ELSE CHOOSE s \in matching : \A t \in matching \ {s} : ScopeLess(s, t)

\* A get_scope_resolver over a map that keeps the order of insertion.
GetScopeResolverInserted(bs, file_referrer) ==
  IF file_referrer = NoReferrer THEN NoScope
  ELSE RFind(bs, inserted, file_referrer)

\* A get_scope_resolver that falls back to the last scope of the map.
GetScopeResolverNoDefault(bs, file_referrer) ==
  IF file_referrer = NoReferrer \/ DOMAIN bs = {} THEN NoScope
  ELSE IF RFind(bs, SortedKeys(DOMAIN bs), file_referrer) # NoScope
       THEN RFind(bs, SortedKeys(DOMAIN bs), file_referrer)
       ELSE SortedKeys(DOMAIN bs)[Len(SortedKeys(DOMAIN bs))]

\* LspResolver::get_scope_resolver: the key of the scope whose resolver is
\* returned, NoScope for the unscoped resolver.
GetScopeResolver(bs, file_referrer) ==
  IF file_referrer = NoReferrer THEN NoScope
  ELSE RFind(bs, SortedKeys(DOMAIN bs), file_referrer)

\* The resolver that get_scope_resolver returns a reference to.
ScopeResolver(unsc, bs, scope) == IF scope = NoScope THEN unsc ELSE bs[scope]

\* ManagedCliNpmResolver::set_package_reqs: replaces the requirements of
\* the resolver; fails, and leaves them, when the cache lacks a package
\* (the cache of the model lacks "b@1").
SetPackageReqs(cur, reqs) ==
  IF "b@1" \notin reqs
  THEN [ok |-> TRUE, package_reqs |-> reqs]
  ELSE [ok |-> FALSE, package_reqs |-> cur]

\* reqs.get(&scope.cloned()).map(..).unwrap_or_default()
ReqsOf(reqs, scope) == IF scope \in DOMAIN reqs THEN reqs[scope] ELSE {}

\* A handling of a failed set_package_reqs that returns the error.
OnSetErrorRaise(acc, scope) ==
  [acc EXCEPT !.failed = @ \cup {scope}, !.raised = TRUE]

\* `if let Err(err) = .. { lsp_warn!(..) }`: the error is logged.
OnSetError(acc, scope) == [acc EXCEPT !.failed = @ \cup {scope}]

\* A loop body that asks only for the requirements the resolver lacks.
SetScopeReqsDelta(acc, scope, reqs) ==
  LET resolver == ScopeResolver(acc.unscoped, acc.by_scope, scope)
      out == SetPackageReqs(resolver.package_reqs,
                            ReqsOf(reqs, scope) \ resolver.package_reqs)
      updated == [resolver EXCEPT !.package_reqs = out.package_reqs]
      next == IF scope = NoScope THEN [acc EXCEPT !.unscoped = updated]
              ELSE [acc EXCEPT !.by_scope[scope] = updated]
  IN IF resolver.npm_resolver # "managed" THEN acc
     ELSE IF out.ok THEN next
     ELSE OnSetError(next, scope)

\* A loop body that passes over a scope whose key the map lacks.
SetScopeReqsSkipAbsent(acc, scope, reqs) ==
  LET resolver == ScopeResolver(acc.unscoped, acc.by_scope, scope)
      out == SetPackageReqs(resolver.package_reqs, ReqsOf(reqs, scope))
      updated == [resolver EXCEPT !.package_reqs = out.package_reqs]
      next == IF scope = NoScope THEN [acc EXCEPT !.unscoped = updated]
              ELSE [acc EXCEPT !.by_scope[scope] = updated]
  IN IF resolver.npm_resolver # "managed" \/ scope \notin DOMAIN reqs THEN acc
     ELSE IF out.ok THEN next
     ELSE OnSetError(next, scope)

\* The body of the loop of set_npm_reqs for one (scope, resolver).
SetScopeReqs(acc, scope, reqs) ==
  LET resolver == ScopeResolver(acc.unscoped, acc.by_scope, scope)
      out == SetPackageReqs(resolver.package_reqs, ReqsOf(reqs, scope))
      updated == [resolver EXCEPT !.package_reqs = out.package_reqs]
      next == IF scope = NoScope THEN [acc EXCEPT !.unscoped = updated]
              ELSE [acc EXCEPT !.by_scope[scope] = updated]
  IN IF resolver.npm_resolver # "managed" THEN acc
     ELSE IF out.ok THEN next
     ELSE OnSetError(next, scope)

\* The loop of set_npm_reqs over the scopes listed by order; the task that
\* drives it runs for `polls` scopes. An error that is returned ends it.
RECURSIVE SetNpmReqsLoop(_, _, _, _)
SetNpmReqsLoop(acc, order, reqs, polls) ==
  IF order = << >> \/ polls = 0 \/ acc.raised THEN acc
  ELSE SetNpmReqsLoop(SetScopeReqs(acc, Head(order), reqs), Tail(order),
                      reqs, polls - 1)

\* The scopes in the order set_npm_reqs and did_cache visit them.
ScopeOrder(bs) == <<NoScope>> \o SortedKeys(DOMAIN bs)

\* LspResolver::set_npm_reqs
SetNpmReqs(unsc, bs, reqs, polls) ==
  SetNpmReqsLoop([unscoped |-> unsc, by_scope |-> bs, failed |-> {},
                  raised |-> FALSE],
                 ScopeOrder(bs), reqs, polls)

\* A did_cache that puts a fresh resolver without config data in the place
\* of the scope resolver.
DidCacheResolverFresh(r) == FromConfigData(NoConfigData)

\* The two inspect calls of LspResolver::did_cache on one scope resolver;
\* JsrCacheResolver::did_cache drops what was memoized from the cache.
DidCacheResolver(r) ==
  LET j == IF r.jsr_resolver THEN [r EXCEPT !.jsr_memo = FALSE] ELSE r
  IN IF j.redirect_resolver THEN [j EXCEPT !.entries = DidCacheTable(@)]
     ELSE j

\* LspResolver::resolve_redirects
ResolveRedirects(unsc, bs, hdrs, specifier, file_referrer) ==
  LET scope == GetScopeResolver(bs, file_referrer)
      resolver == ScopeResolver(unsc, bs, scope)
      r == Resolve(resolver.entries, hdrs, specifier)
  IN IF ~resolver.redirect_resolver
     THEN [scope |-> scope, result |-> specifier, entries |-> resolver.entries]
     ELSE [scope |-> scope, result |-> r.result, entries |-> r.entries]

\* The record of a call on the LspResolver, before any call.
NoRouted ==
  [op |-> "none", referrer |-> NoReferrer, scope |-> NoScope, failed |-> {},
   reqs |-> << >>, resumed |-> FALSE, cleared |-> {}]

NoCall ==
  [op |-> "none", arg |-> NoUrl, result |-> NoUrl, chain |-> << >>,
   calls |-> 0, end |-> "none"]

Init ==
  /\ \/ lockfile = << >> /\ headers \in Providers
     \/ lockfile \in Lockfiles /\ headers \in SeededProviders
  /\ entries = New(lockfile)
  /\ snapshot = NoSnapshot
  /\ stores = 0
  /\ last = NoCall
  /\ unscoped = DefaultLspResolver.unscoped
  /\ by_scope = DefaultLspResolver.by_scope
  /\ inserted = << >>
  /\ routed = NoRouted
  /\ tasks = << >>
  /\ walk = << >>
  /\ cjs = << >>
  /\ pkg = << >>
  /\ run = << >>

\* ------------------------------------------------------------------------
\* Operations
\* ------------------------------------------------------------------------
\* LspResolver::resolve_redirects -> RedirectResolver::resolve
ResolveCall(u) ==
  LET r == Resolve(entries, headers, u) IN
  /\ entries' = r.entries
  /\ last' = [op |-> "resolve", arg |-> u, result |-> r.result,
              chain |-> << >>, calls |-> r.calls, end |-> r.end]
  /\ UNCHANGED <<headers, lockfile, snapshot, stores, scopeVars, tasks, auxVars>>

\* LspResolver::redirect_chain_headers -> RedirectResolver::chain
ChainCall(u) ==
  LET c == Chain(entries, headers, u) IN
  /\ entries' = c.entries
  /\ last' = [op |-> "chain", arg |-> u, result |-> NoUrl,
              chain |-> c.result, calls |-> c.calls, end |-> "none"]
  /\ UNCHANGED <<headers, lockfile, snapshot, stores, scopeVars, tasks, auxVars>>

\* LspResolver::did_cache -> RedirectResolver::did_cache
DidCache ==
  /\ entries' = DidCacheTable(entries)
  /\ last' = [NoCall EXCEPT !.op = "did_cache"]
  /\ UNCHANGED <<headers, lockfile, snapshot, stores, scopeVars, tasks, auxVars>>

\* LspResolver::snapshot -> LspScopeResolver::snapshot
Snapshot ==
  /\ ~snapshot.taken
  /\ snapshot' = SnapshotOf(LiveRedirectResolver)
  /\ last' = [NoCall EXCEPT !.op = "snapshot"]
  /\ UNCHANGED <<headers, lockfile, entries, stores, scopeVars, tasks, auxVars>>

\* The headers the environment may write for a URL: no location, or a
\* relative location to the next name.
StoredHeaders(u) ==
  {Headers(NoLocation)} \cup
  {Headers(RelLocation(u.name + 1)) : x \in {y \in {u} : y.name < MaxName}}

\* The environment downloads the URL u that the served URL v redirects to,
\* and writes its headers h to the HTTP cache.
CacheStore(v, h) ==
  LET u == ResolveImport(headers[v].location, v) IN
  /\ stores < MaxStores
  /\ headers[v].served
  /\ u \in HttpUrls
  /\ ~headers[u].served
  /\ h \in StoredHeaders(u)
  /\ headers' = [headers EXCEPT ![u] = h]
  /\ stores' = stores + 1
  /\ UNCHANGED <<lockfile, entries, snapshot, last, scopeVars, tasks, auxVars>>

Queries ==
  {HttpUrl(0, n) : n \in 0..MaxQuery} \cup {HttpUrl(1, 0), FileUrl}

Next ==
  \/ \E u \in Queries : ResolveCall(u)
  \/ \E u \in Queries : ChainCall(u)
  \/ DidCache
  \/ Snapshot
  \/ \E v \in HttpUrls :
       \E h \in {Headers(NoLocation)} \cup
                 {Headers(RelLocation(n)) : n \in Names} : CacheStore(v, h)

Spec == Init /\ [][Next]_vars

\* ------------------------------------------------------------------------
\* The redirect graph of a header provider
\* ------------------------------------------------------------------------
Range(seq) == {seq[i] : i \in 1..Len(seq)}

\* The path the header provider alone leads along from `origin` (locations
\* are resolved against the original input, as resolve does): the URLs
\* that redirect, in order, and how the path ends: at a URL served without
\* a location ("terminal"), at a URL the provider does not serve
\* ("unserved"), at a location that does not resolve ("bad"), or by coming
\* back to a URL of the path ("cycle").
RECURSIVE PathFrom(_, _, _, _)
PathFrom(hdrs, origin, current, seen) ==
  IF current \in Range(seen)
  THEN [kind |-> "cycle", urls |-> seen, terminus |-> NoUrl]
  ELSE
    LET h == GetHeaders(hdrs, current) IN
    IF ~h.served
    THEN [kind |-> "unserved", urls |-> seen, terminus |-> current]
    ELSE IF h.location.kind = "none"
    THEN [kind |-> "terminal", urls |-> seen, terminus |-> current]
    ELSE IF ResolveImport(h.location, origin) = NoUrl
    THEN [kind |-> "bad", urls |-> Append(seen, current), terminus |-> NoUrl]
    ELSE PathFrom(hdrs, origin, ResolveImport(h.location, origin),
                  Append(seen, current))

Path(hdrs, u) == PathFrom(hdrs, u, u, << >>)

\* ------------------------------------------------------------------------
\* Claims
\* ------------------------------------------------------------------------

\* C1: when resolve(u) returns none because the walk exceeded the hop limit
\* or ran into a redirect cycle, every URL that had no table entry before
\* the call still has none after it.
C1_FailedWalkLeavesNoEntries ==
  [][\A u \in Queries :
       (ResolveCall(u) /\ Resolve(entries, headers, u).end = "hops")
         => \A k \in AllUrls :
              k \notin DOMAIN entries => k \notin DOMAIN entries']_vars

\* C2: on a resolver with an empty table, resolve(u) returns none for
\* every u that the provider leads through more than 10 redirect hops
\* before a terminal URL (11 hops included).
C2_MoreThanTenHopsIsNone ==
  entries = EmptyTable =>
    \A u \in HttpUrls :
      (Path(headers, u).kind = "terminal" /\ Len(Path(headers, u).urls) > 10)
        => Resolve(entries, headers, u).result = NoUrl

\* C3: after a did_cache that follows a resolve(u) that returned none,
\* resolve(u) consults the header provider again, and returns the terminal
\* URL if the provider by now serves the whole chain of u.
C3_ReprobeAfterDidCache ==
  [][(last.op = "resolve" /\ last.result = NoUrl /\ DidCache)
       => LET r == Resolve(entries', headers', last.arg)
              p == Path(headers', last.arg)
          IN /\ r.calls > 0
             /\ (p.kind = "terminal" /\ Len(p.urls) <= HopLimit)
                  => r.result = p.terminus]_vars

\* C4: did_cache keeps every proven-terminal marker and every
\* known-redirecting entry unchanged; it removes in-flight placeholders
\* only.
C4_DidCacheKeepsTerminalMarkers ==
  [][DidCache
       => \A k \in DOMAIN entries :
            (entries[k].kind = "none" \/ entries[k].destination # NoUrl)
              => k \in DOMAIN entries' /\ entries'[k] = entries[k]]_vars

\* C5: once a snapshot s is taken, no operation on the live resolver
\* (resolve_redirects, redirect_chain_headers, did_cache) changes the
\* redirect table observed through s.
C5_SnapshotTableIsFrozen ==
  [][(/\ snapshot.taken
      /\ \/ \E u \in Queries : ResolveCall(u) \/ ChainCall(u)
         \/ DidCache)
       => SnapshotEntries' = SnapshotEntries]_vars

\* C6: in every reachable state of the table (tables seeded from a
\* lockfile with chained entries included), if resolve(u) returns a URL d
\* then resolve(d) returns d.
C6_ResolveIsIdempotent ==
  \A u \in AllUrls :
    LET r == Resolve(entries, headers, u) IN
    r.result # NoUrl
      => Resolve(r.entries, headers, r.result).result = r.result

\* C7: in every reachable state, if chain(u) is non-empty then all its
\* entries carry the same destination, the value that resolve(u) returns.
C7_ChainCarriesResolveResult ==
  \A u \in AllUrls :
    LET c == Chain(entries, headers, u).result IN
    \A i \in 1..Len(c) :
      c[i][2].destination = Resolve(entries, headers, u).result

\* C8: on a resolver freshly constructed from a lockfile, for every entry
\* source -> destination with valid URLs, resolve(source) returns
\* destination and resolve(destination) returns destination, neither with
\* a call of the header provider, whatever else the lockfile contains.
C8_SeededEntriesResolve ==
  last.op = "none" =>
    \A i \in 1..Len(lockfile) :
      (Parse(lockfile[i][1]) # NoUrl /\ Parse(lockfile[i][2]) # NoUrl)
        => LET rs == Resolve(entries, headers, Parse(lockfile[i][1]))
               rd == Resolve(rs.entries, headers, Parse(lockfile[i][2]))
           IN /\ rs.result = Parse(lockfile[i][2]) /\ rs.calls = 0
              /\ rd.result = Parse(lockfile[i][2]) /\ rd.calls = 0

C12_UnservedUrlIsNone ==
  \A u \in HttpUrls :
    (~headers[u].served /\ u \notin DOMAIN entries)
      => /\ Resolve(entries, headers, u).result = NoUrl
         /\ u \notin DOMAIN Resolve(entries, headers, u).entries
         /\ Chain(entries, headers, u).result = << >>
         /\ u \notin DOMAIN Chain(entries, headers, u).entries

\* Witness of C12: a resolve asked the provider once, got none, returned
\* none and left no entry for its input.
C12_Witness ==
  /\ last.op = "resolve"
  /\ last.end = "unserved"
  /\ last.calls = 1
  /\ last.result = NoUrl
  /\ ~headers[last.arg].served
  /\ last.arg \notin DOMAIN entries

\* C13: for every URL u whose scheme is neither http nor https,
\* resolve(u) returns u without a call of the header provider and without
\* a change of the table.
C13_SchemePassthrough ==
  \A u \in AllUrls :
    u.scheme \notin {"http", "https"}
      => /\ Resolve(entries, headers, u).result = u
         /\ Resolve(entries, headers, u).calls = 0
         /\ Resolve(entries, headers, u).entries = entries

\* Witness of C13: a resolve of the file URL returned it, on a table that
\* holds entries.
C13_Witness ==
  /\ last.op = "resolve"
  /\ last.arg = FileUrl
  /\ last.result = FileUrl
  /\ last.calls = 0
  /\ entries # EmptyTable

RECURSIVE InsertionOrders(_)
InsertionOrders(n) ==
  IF n = 0 THEN {<< >>}
  ELSE InsertionOrders(n - 1) \cup
       {Append(o, r) : <<o, r>> \in
          {p \in InsertionOrders(n - 1) \X ScopeRoots :
             Len(p[1]) = n - 1 /\ p[2] \notin Range(p[1])}}

\* The cache that the scope resolvers of an LspResolver read: one URL that
\* redirects to a terminal URL.
ScopedHeaders == Provider(1, TRUE, "terminal", FALSE)

\* The RedirectResolver of the first specification is not in use.
RedirectIdle ==
  /\ tasks = << >>
  /\ walk = << >>
  /\ cjs = << >>
  /\ pkg = << >>
  /\ run = << >>
  /\ headers = ScopedHeaders
  /\ lockfile = << >>
  /\ entries = EmptyTable
  /\ snapshot = NoSnapshot
  /\ stores = 0
  /\ last = NoCall

\* An LspResolver: default-constructed, or built by from_config from a
\* config tree that lists the scopes in some order.
RouterInit ==
  /\ RedirectIdle
  /\ routed = NoRouted
  /\ \/ /\ unscoped = DefaultLspResolver.unscoped
        /\ by_scope = DefaultLspResolver.by_scope
        /\ inserted = << >>
     \/ \E order \in InsertionOrders(MaxScopes) :
          /\ unscoped = FromConfig(order).unscoped
          /\ by_scope = FromConfig(order).by_scope
          /\ inserted = order

\* A call of get_scope_resolver, as every query of the LspResolver makes.
RouteCall(file_referrer) ==
  /\ routed' = [NoRouted EXCEPT !.op = "route", !.referrer = file_referrer,
                                !.scope = GetScopeResolver(by_scope,
                                                           file_referrer)]
  /\ UNCHANGED <<redirectVars, tasks, auxVars, unscoped, by_scope, inserted>>

RouterNext == \E r \in Referrers \cup {NoReferrer} : RouteCall(r)

SpecRouter == RouterInit /\ [][RouterNext]_vars

\* The scopes of by_scope that contain the referrer r.
Containing(r) ==
  {s \in DOMAIN by_scope : ContainsReferrer(by_scope[s], r)}

\* C15: when nested scope roots are registered, a referrer is routed to the
\* scope with the longest root that contains it: under the inner root to
\* the inner scope, under the outer root only to the outer scope.
C15_LongestRootWins ==
  \A r \in Referrers :
    Containing(r) # {}
      => /\ GetScopeResolver(by_scope, r) \in Containing(r)
         /\ \A s \in Containing(r) :
              Len(s) <= Len(GetScopeResolver(by_scope, r))

\* Witness of C15: the inner scope was inserted before the outer one, and a
\* referrer under both was routed to the inner scope.
C15_Witness ==
  /\ routed.op = "route"
  /\ Len(inserted) = 2
  /\ Containing(routed.referrer) = Range(inserted)
  /\ Len(inserted[1]) > Len(inserted[2])
  /\ routed.scope = inserted[1]

\* C16, as claimed: when more than one scope contains the referrer, the
\* scope that was inserted last among them is selected.
C16_LastInsertedWins ==
  \A r \in Referrers :
    Cardinality(Containing(r)) > 1
      => \E i \in 1..Len(inserted) :
           /\ inserted[i] = GetScopeResolver(by_scope, r)
           /\ \A j \in i + 1..Len(inserted) : inserted[j] \notin Containing(r)

\* C16, amended: when more than one scope contains the referrer, the scope
\* selected is the containing scope whose root is greatest in the key order
\* of by_scope, whatever the order of insertion.
C16_GreatestKeyWins ==
  \A r \in Referrers :
    Cardinality(Containing(r)) > 1
      => /\ GetScopeResolver(by_scope, r) \in Containing(r)
         /\ \A s \in Containing(r) \ {GetScopeResolver(by_scope, r)} :
              ScopeLess(s, GetScopeResolver(by_scope, r))

\* Witness of C16: two scopes contain the routed referrer, and the one
\* selected is not the one inserted last.
C16_Witness ==
  /\ routed.op = "route"
  /\ Cardinality(Containing(routed.referrer)) > 1
  /\ routed.scope \in Containing(routed.referrer)
  /\ routed.scope # inserted[Len(inserted)]
  /\ inserted[Len(inserted)] \in Containing(routed.referrer)

\* C17: with no referrer, or with a referrer that no scope contains,
\* get_scope_resolver returns the unscoped resolver, which every
\* LspResolver has, a default-constructed one included.
C17_RoutingIsTotal ==
  /\ GetScopeResolver(by_scope, NoReferrer) = NoScope
  /\ \A r \in Referrers :
       Containing(r) = {} => GetScopeResolver(by_scope, r) = NoScope
  /\ ScopeResolver(unscoped, by_scope, NoScope) = unscoped
  /\ ~unscoped.config_data.present
  /\ \A r \in Referrers \cup {NoReferrer} :
       GetScopeResolver(by_scope, r) \in DOMAIN by_scope \cup {NoScope}

\* Witness of C17: the default-constructed LspResolver routed a referrer to
\* its unscoped resolver.
C17_Witness ==
  /\ routed.op = "route"
  /\ routed.referrer # NoReferrer
  /\ routed.scope = NoScope
  /\ by_scope = DefaultLspResolver.by_scope
  /\ unscoped = DefaultScopeResolver

\* ------------------------------------------------------------------------
\* The LspResolver of a workspace
\* ------------------------------------------------------------------------
\* The scope roots of the workspace: an outer scope, a scope nested in it,
\* and a scope that brings its own node_modules.
WorkspaceRoots == {<<1>>, <<1, 1>>, <<2>>}
Workspaces == {S \in SUBSET WorkspaceRoots : Cardinality(S) <= MaxScopes}

\* The requirement maps passed to set_npm_reqs over the scopes K: every
\* scope asks for the cached package, but the scope `failing` asks for the
\* uncached one, or the scope `absent` has no key in the map.
Nowhere == <<0>>
ReqMap(K, failing, absent) ==
  [s \in K \ {absent} |-> IF s = failing THEN {"b@1"} ELSE {"a@1"}]
ReqMaps(K) ==
  {ReqMap(K, f, Nowhere) : f \in K \cup {Nowhere}} \cup
  {ReqMap(K, Nowhere, a) : a \in K}

\* The URLs and referrers of the queries: a redirecting URL, and a file in
\* every directory of the workspace.
ScopedQueries == {HttpUrl(0, 0)}
FileReferrers == {<<1, 2>>, <<1, 1, 2>>, <<2, 2>>, <<2, 1, 2>>}

ScopesInit ==
  /\ RedirectIdle
  /\ routed = NoRouted
  /\ \/ /\ unscoped = DefaultLspResolver.unscoped
        /\ by_scope = DefaultLspResolver.by_scope
        /\ inserted = << >>
     \/ \E S \in Workspaces :
          /\ unscoped = FromConfig(SortedKeys(S)).unscoped
          /\ by_scope = FromConfig(SortedKeys(S)).by_scope
          /\ inserted = SortedKeys(S)

\* LspResolver::resolve_redirects
ResolveRedirectsCall(specifier, file_referrer) ==
  LET out == ResolveRedirects(unscoped, by_scope, headers, specifier,
                              file_referrer) IN
  /\ unscoped' = IF out.scope = NoScope
                 THEN [unscoped EXCEPT !.entries = out.entries]
                 ELSE unscoped
  /\ by_scope' = IF out.scope = NoScope THEN by_scope
                 ELSE [by_scope EXCEPT ![out.scope].entries = out.entries]
  /\ routed' = [NoRouted EXCEPT !.op = "resolve_redirects",
                                !.referrer = file_referrer,
                                !.scope = out.scope]
  /\ UNCHANGED <<redirectVars, tasks, auxVars, inserted>>

\* A did_cache that signals the unscoped resolver only.
DidCacheUnscopedOnly ==
  /\ unscoped' = DidCacheResolver(unscoped)
  /\ by_scope' = by_scope
  /\ routed' = [NoRouted EXCEPT !.op = "did_cache",
                                !.cleared = {s \in {NoScope} :
                                               unscoped.jsr_memo}]
  /\ UNCHANGED <<redirectVars, tasks, auxVars, inserted>>

\* LspResolver::did_cache; the record keeps the scopes whose registry
\* resolver dropped a memo.
DidCacheAll ==
  /\ unscoped' = DidCacheResolver(unscoped)
  /\ by_scope' = [s \in DOMAIN by_scope |-> DidCacheResolver(by_scope[s])]
  /\ routed' = [NoRouted EXCEPT
                  !.op = "did_cache",
                  !.cleared =
                     {s \in {NoScope} \cup DOMAIN by_scope :
                        /\ ScopeResolver(unscoped, by_scope, s).jsr_memo
                        /\ ~DidCacheResolver(
                              ScopeResolver(unscoped, by_scope,
                                            s)).jsr_memo}]
  /\ UNCHANGED <<redirectVars, tasks, auxVars, inserted>>

\* LspResolver::set_npm_reqs, driven to its end.
SetNpmReqsCall(reqs) ==
  LET out == SetNpmReqs(unscoped, by_scope, reqs,
                        Len(ScopeOrder(by_scope))) IN
  /\ unscoped' = out.unscoped
  /\ by_scope' = out.by_scope
  /\ routed' = [NoRouted EXCEPT
                  !.op = "set_npm_reqs", !.failed = out.failed,
                  !.resumed = (routed.op = "dropped" /\ routed.reqs = reqs),
                  !.cleared =
                     {s \in Range(ScopeOrder(by_scope)) :
                        /\ ScopeResolver(unscoped, by_scope,
                                         s).package_reqs # {}
                        /\ ScopeResolver(out.unscoped, out.by_scope,
                                         s).package_reqs = {}}]
  /\ UNCHANGED <<redirectVars, tasks, auxVars, inserted>>

\* LspResolver::set_npm_reqs, whose driving task is dropped after the
\* loop has visited `polls` scopes.
SetNpmReqsDropped(reqs, polls) ==
  LET out == SetNpmReqs(unscoped, by_scope, reqs, polls) IN
  /\ polls \in 1..Len(ScopeOrder(by_scope)) - 1
  /\ unscoped' = out.unscoped
  /\ by_scope' = out.by_scope
  /\ routed' = [NoRouted EXCEPT !.op = "dropped", !.failed = out.failed,
                                !.reqs = reqs]
  /\ UNCHANGED <<redirectVars, tasks, auxVars, inserted>>

ScopesNext ==
  \/ \E r \in FileReferrers \cup {NoReferrer} : RouteCall(r)
  \/ \E u \in ScopedQueries :
       \E r \in FileReferrers \cup {NoReferrer} : ResolveRedirectsCall(u, r)
  \/ DidCacheAll
  \/ \E reqs \in ReqMaps(Range(ScopeOrder(by_scope))) : SetNpmReqsCall(reqs)
  \/ \E reqs \in ReqMaps(Range(ScopeOrder(by_scope))) :
       \E polls \in 1..MaxScopes : SetNpmReqsDropped(reqs, polls)

SpecScopes == ScopesInit /\ [][ScopesNext]_vars

\* The scopes that set_npm_reqs visits, the resolver of scope s in the
\* LspResolver x, and whether set_npm_reqs with the map m sets s.
ScopeKeys == Range(ScopeOrder(by_scope))
Managed(s) == ScopeResolver(unscoped, by_scope, s).npm_resolver = "managed"
ReqsIn(x, s) == ScopeResolver(x.unscoped, x.by_scope, s).package_reqs
Sets(m, s) ==
  SetPackageReqs(ScopeResolver(unscoped, by_scope, s).package_reqs,
                 ReqsOf(m, s)).ok

\* C18: for a fixed LspResolver and referrer r, get_scope_resolver(r)
\* selects the same scope before and after every query (resolve_redirects,
\* did_cache, set_npm_reqs), and a routing changes no resolver state.
C18_RoutingIsPure ==
  [][/\ \A r \in FileReferrers \cup {NoReferrer} :
          GetScopeResolver(by_scope', r) = GetScopeResolver(by_scope, r)
     /\ \A r \in FileReferrers \cup {NoReferrer} :
          RouteCall(r) => /\ unscoped' = unscoped
                          /\ by_scope' = by_scope
                          /\ routed'.scope = GetScopeResolver(by_scope, r)]_vars

\* Witness of C18: a referrer was routed to a scope whose redirect table
\* and package requirements earlier queries have filled.
C18_Witness ==
  /\ routed.op = "route"
  /\ routed.scope # NoScope
  /\ by_scope[routed.scope].entries # EmptyTable
  /\ by_scope[routed.scope].package_reqs # {}
  /\ Cardinality(Containing(routed.referrer)) > 1

\* C19: when set_package_reqs fails for the managed resolver of one scope,
\* set_npm_reqs still sets the requirements of every other managed scope,
\* before and after it in iteration order, and returns no error.
C19_FailureIsIsolated ==
  \A m \in ReqMaps(ScopeKeys) :
    LET out == SetNpmReqs(unscoped, by_scope, m, Len(ScopeOrder(by_scope)))
    IN (\E f \in ScopeKeys : Managed(f) /\ ~Sets(m, f))
         => /\ ~out.raised
            /\ \A s \in ScopeKeys :
                 Managed(s) /\ Sets(m, s) => ReqsIn(out, s) = ReqsOf(m, s)
            /\ out.failed = {f \in ScopeKeys : Managed(f) /\ ~Sets(m, f)}

\* Witness of C19: a set_npm_reqs failed for one scope, and a scope before
\* it and a scope after it hold the requirements of the call.
C19_Witness ==
  /\ routed.op = "set_npm_reqs"
  /\ \E f \in routed.failed :
       /\ f # NoScope
       /\ by_scope[f].package_reqs = {}
       /\ unscoped.package_reqs = {"a@1"}
       /\ \E s \in DOMAIN by_scope :
            ScopeLess(f, s) /\ by_scope[s].package_reqs = {"a@1"}

\* C20: two set_npm_reqs with the same map, or a set_npm_reqs dropped after
\* some scopes followed by a complete one with the same map, leave every
\* scope's requirements as one complete call leaves them.
C20_SetNpmReqsIsIdempotent ==
  \A m \in ReqMaps(ScopeKeys) :
    LET n == Len(ScopeOrder(by_scope))
        once == SetNpmReqs(unscoped, by_scope, m, n)
        twice == SetNpmReqs(once.unscoped, once.by_scope, m, n)
    IN /\ \A s \in ScopeKeys : ReqsIn(twice, s) = ReqsIn(once, s)
       /\ \A polls \in 0..n :
            LET part == SetNpmReqs(unscoped, by_scope, m, polls)
                after == SetNpmReqs(part.unscoped, part.by_scope, m, n)
            IN \A s \in ScopeKeys : ReqsIn(after, s) = ReqsIn(once, s)

\* Witness of C20: a complete set_npm_reqs followed a dropped call with
\* the same map, which had set some scopes and not the others.
C20_Witness ==
  /\ routed.op = "set_npm_reqs"
  /\ routed.resumed
  /\ routed.failed = {}
  /\ Cardinality(DOMAIN by_scope) >= 2
  /\ \A s \in ScopeKeys : Managed(s) => ReqsIn([unscoped |-> unscoped,
                                               by_scope |-> by_scope], s)
                                          = {"a@1"}

\* ------------------------------------------------------------------------
\* Two resolve calls on one RedirectResolver
\* ------------------------------------------------------------------------
\* The calls share the table `entries`; each step of a call is one access
\* to it (DashMap::get, DashMap::insert) or one call of get_headers, with
\* the local computation that follows.
Tasks == {1, 2}

\* A call of resolve(specifier) that has not run yet.
NewTask(specifier) ==
  [pc |-> "begin", specifier |-> specifier, current |-> specifier,
   chain |-> << >>, destination |-> NoUrl, result |-> NoUrl]

\* The providers and the URLs of the concurrent calls: short lines, the
\* line with a side entry, and a line longer than the hop limit.
ConcurrentProviders ==
  {Provider(2, TRUE, "terminal", FALSE), Provider(1, TRUE, "unserved", FALSE),
   Provider(1, FALSE, "loop", FALSE), Provider(2, TRUE, "terminal", TRUE),
   Provider(HopLimit + 2, TRUE, "terminal", FALSE)}
ConcurrentQueries == {HttpUrl(0, 0), HttpUrl(0, 1), HttpUrl(1, 0), FileUrl}

ConcurrentInit ==
  /\ headers \in ConcurrentProviders
  /\ lockfile = << >>
  /\ entries = New(lockfile)
  /\ snapshot = NoSnapshot
  /\ stores = 0
  /\ last = NoCall
  /\ unscoped = DefaultLspResolver.unscoped
  /\ by_scope = DefaultLspResolver.by_scope
  /\ inserted = << >>
  /\ routed = NoRouted
  /\ tasks \in [Tasks -> {NewTask(u) : u \in ConcurrentQueries}]
  /\ walk = << >>
  /\ cjs = << >>
  /\ pkg = << >>
  /\ run = << >>

\* The scheme test of resolve.
Begin(t) ==
  LET c == tasks[t] IN
  /\ c.pc = "begin"
  /\ tasks' = [tasks EXCEPT ![t] =
       IF NotHttp(c.specifier)
       THEN [c EXCEPT !.pc = "done", !.result = c.specifier]
       ELSE [c EXCEPT !.pc = "get"]]
  /\ UNCHANGED <<redirectVars, scopeVars, auxVars>>

\* self.entries.get(&current) at the head of the loop.
Lookup(t) ==
  LET c == tasks[t] IN
  /\ c.pc = "get"
  /\ tasks' = [tasks EXCEPT ![t] =
       IF c.current \in DOMAIN entries
       THEN [c EXCEPT !.pc = "fill",
                      !.destination =
                         IF entries[c.current].kind = "some"
                         THEN entries[c.current].destination
                         ELSE c.current]
       ELSE [c EXCEPT !.pc = "headers"]]
  /\ UNCHANGED <<redirectVars, scopeVars, auxVars>>

\* (self.get_headers)(&current) and the branches on its answer.
Probe(t) ==
  LET c == tasks[t]
      h == GetHeaders(headers, c.current)
      target == ResolveImport(h.location, c.specifier)
  IN
  /\ c.pc = "headers"
  /\ tasks' = [tasks EXCEPT ![t] =
       IF ~h.served THEN [c EXCEPT !.pc = "fill", !.destination = NoUrl]
       ELSE IF h.location.kind = "none" THEN [c EXCEPT !.pc = "mark"]
       ELSE IF TooManyHops(c.chain) \/ target = NoUrl
       THEN [c EXCEPT !.pc = "fill", !.destination = NoUrl]
       ELSE [c EXCEPT !.pc = "get", !.current = target,
                      !.chain = Append(@, <<c.current,
                                  RedirectEntry(h.location, target, NoUrl)>>)]]
  /\ UNCHANGED <<redirectVars, scopeVars, auxVars>>

\* self.entries.insert(current.clone(), None) for a terminal URL.
Mark(t) ==
  LET c == tasks[t] IN
  /\ c.pc = "mark"
  /\ entries' = Insert(entries, c.current, NoneEntry)
  /\ tasks' = [tasks EXCEPT ![t] =
                 [c EXCEPT !.pc = "fill", !.destination = c.current]]
  /\ UNCHANGED <<headers, lockfile, snapshot, stores, last, scopeVars, auxVars>>

\* One insert of the write-back loop, or the return after the last one.
Fill(t) ==
  LET c == tasks[t] IN
  /\ c.pc = "fill"
  /\ IF c.chain = << >>
     THEN /\ tasks' = [tasks EXCEPT ![t] =
                         [c EXCEPT !.pc = "done", !.result = c.destination]]
          /\ UNCHANGED entries
     ELSE /\ entries' = Insert(entries, Head(c.chain)[1],
                               BackFill(Head(c.chain)[2], c.destination))
          /\ tasks' = [tasks EXCEPT ![t] = [c EXCEPT !.chain = Tail(@)]]
  /\ UNCHANGED <<headers, lockfile, snapshot, stores, last, scopeVars, auxVars>>

ConcurrentNext ==
  \E t \in Tasks : Begin(t) \/ Lookup(t) \/ Probe(t) \/ Mark(t) \/ Fill(t)

SpecConcurrent == ConcurrentInit /\ [][ConcurrentNext]_vars

\* The two calls run one after the other on the table the resolver starts
\* with: the results of the first and of the second, and the final table.
Sequential(first, second) ==
  LET a == Resolve(New(lockfile), headers, tasks[first].specifier)
      b == Resolve(a.entries, headers, tasks[second].specifier)
  IN [results |-> [t \in Tasks |-> IF t = first THEN a.result ELSE b.result],
      entries |-> b.entries]

\* C11: when two concurrent resolve calls have returned, each has returned
\* the value it returns in a sequential run of the two, and the table is
\* the table that a sequential run of the two leaves.
C11_ConcurrentResolveIsSequential ==
  (\A t \in Tasks : tasks[t].pc = "done")
    => /\ \A t \in Tasks :
            tasks[t].result \in {Sequential(1, 2).results[t],
                                 Sequential(2, 1).results[t]}
       /\ entries \in {Sequential(1, 2).entries, Sequential(2, 1).entries}

\* ------------------------------------------------------------------------
\* Seeding, and the history of a resolver
\* ------------------------------------------------------------------------
\* A lockfile entry both of whose strings are URLs, and the lockfile
\* without the other entries.
ValidRedirect(e) == e[1] # BadString /\ e[2] # BadString
ValidOnly(lock) == SelectSeq(lock, ValidRedirect)

\* C24: a lockfile entry whose source or destination is not a URL adds
\* neither a redirect record nor a terminal marker, construction returns a
\* table, and the table is the one seeded from the valid entries alone.
C24_InvalidRedirectsAreDropped ==
  /\ New(lockfile) = New(ValidOnly(lockfile))
  /\ BadString \notin DOMAIN New(lockfile)
  /\ \A k \in DOMAIN New(lockfile) :
       New(lockfile)[k].kind = "some" => New(lockfile)[k].target # BadString
  /\ \A i \in 1..Len(lockfile) :
       ~ValidRedirect(lockfile[i]) /\ ValidOnly(lockfile) = << >>
         => New(lockfile) = EmptyTable

\* Witness of C24: the resolver was constructed from a lockfile with an
\* invalid entry before a valid one, and resolved the valid one's source.
C24_Witness ==
  /\ Len(lockfile) = 2
  /\ ~ValidRedirect(lockfile[1])
  /\ ValidRedirect(lockfile[2])
  /\ last.op = "resolve"
  /\ last.arg = lockfile[2][1]
  /\ last.result = lockfile[2][2]
  /\ last.calls = 0

\* A resolver that is only queried: no did_cache, no write to the cache and
\* no snapshot.
QueriesNext ==
  \/ \E u \in Queries : ResolveCall(u)
  \/ \E u \in Queries : ChainCall(u)

SpecQueries == Init /\ [][QueriesNext]_vars

\* C25: with a fixed header provider and no did_cache, resolve(u) returns,
\* after any sequence of resolve and chain calls, the value it returns on a
\* freshly constructed resolver with the same seed.
C25_ResolveIgnoresHistory ==
  [][\A u \in Queries :
       ResolveCall(u)
         => last'.result = Resolve(New(lockfile), headers, u).result]_vars

\* ------------------------------------------------------------------------
\* The loop of chain, step by step, on any table
\* ------------------------------------------------------------------------
\* The tables over three URLs: every URL is absent, a terminal marker or a
\* redirect to one of the three, with or without a destination.
ChainUrls == {HttpUrl(0, 0), HttpUrl(0, 1), HttpUrl(0, 2)}
ChainEntries ==
  {NoneEntry} \cup
  {RedirectEntry(NoLocation, t, d) : <<t, d>> \in
     {p \in ChainUrls \X (ChainUrls \cup {NoUrl}) : p[2] \in {p[1], NoUrl}}}
ChainTables ==
  UNION {[K -> ChainEntries] : K \in SUBSET ChainUrls}

\* No chain call has been made.
NoWalk ==
  [pc |-> "idle", specifier |-> NoUrl, current |-> NoUrl, seen |-> {},
   result |-> << >>]

ChainInit ==
  /\ headers \in {Provider(1, TRUE, "terminal", FALSE),
                  Provider(1, FALSE, "loop", FALSE)}
  /\ lockfile = << >>
  /\ entries \in ChainTables
  /\ snapshot = NoSnapshot
  /\ stores = 0
  /\ last = NoCall
  /\ unscoped = DefaultLspResolver.unscoped
  /\ by_scope = DefaultLspResolver.by_scope
  /\ inserted = << >>
  /\ routed = NoRouted
  /\ tasks = << >>
  /\ walk = NoWalk
  /\ cjs = << >>
  /\ pkg = << >>
  /\ run = << >>

\* The head of chain: self.resolve(specifier) and the three `let mut`.
ChainBegin(u) ==
  /\ walk.pc # "loop"
  /\ entries' = Resolve(entries, headers, u).entries
  /\ walk' = [pc |-> "loop", specifier |-> u, current |-> u, seen |-> {},
              result |-> << >>]
  /\ UNCHANGED <<headers, lockfile, snapshot, stores, last, scopeVars, tasks,
                 cjs, pkg, run>>

\* One turn of the loop of chain, or the break that ends it.
ChainStep ==
  /\ walk.pc = "loop"
  /\ walk' =
       IF walk.current \notin DOMAIN entries
       THEN [walk EXCEPT !.pc = "done"]
       ELSE IF entries[walk.current].kind # "some"
       THEN [walk EXCEPT !.pc = "done"]
       ELSE LET entry == entries[walk.current]
                pushed == [walk EXCEPT
                             !.result = Append(@, <<walk.current, entry>>),
                             !.seen = @ \cup {walk.current}]
            IN IF SeenTarget(entry, pushed.seen)
               THEN [pushed EXCEPT !.pc = "done"]
               ELSE [pushed EXCEPT !.current = entry.target]
  /\ UNCHANGED <<redirectVars, scopeVars, tasks, cjs, pkg, run>>

ChainNext ==
  \/ \E u \in ChainUrls : ChainBegin(u)
  \/ ChainStep

\* The loop is a sequential computation: a turn that can be taken is taken.
SpecChain == ChainInit /\ [][ChainNext]_vars /\ WF_vars(ChainStep)

\* C26: on every table, memoized cycles included, the loop of chain(u)
\* comes to its end, and the URLs it returns are distinct.
C26_ChainTerminates ==
  /\ [](\A i, j \in 1..Len(walk.result) :
          walk.result[i][1] = walk.result[j][1] => i = j)
  /\ (walk.pc = "loop") ~> (walk.pc = "done")

\* Witness of C26: a chain call has ended on a table whose targets form a
\* cycle of three URLs, and has returned the three.
C26_Witness ==
  /\ walk.pc = "done"
  /\ Len(walk.result) = 3
  /\ walk.result[3][2].target = walk.specifier

\* C27: set_npm_reqs sets the requirements of a managed scope whose key
\* the map lacks to the empty set, sets those of a keyed scope to the
\* map's set and nothing more, and leaves a scope without a managed
\* resolver as it is.
C27_SetNpmReqsReplaces ==
  \A m \in ReqMaps(ScopeKeys) :
    LET out == SetNpmReqs(unscoped, by_scope, m, Len(ScopeOrder(by_scope)))
    IN \A s \in ScopeKeys :
         /\ Managed(s) /\ s \notin DOMAIN m => ReqsIn(out, s) = {}
         /\ Managed(s) /\ s \in DOMAIN m /\ Sets(m, s)
              => ReqsIn(out, s) = m[s]
         /\ ~Managed(s)
              => ScopeResolver(out.unscoped, out.by_scope, s)
                   = ScopeResolver(unscoped, by_scope, s)

\* Witness of C27: a set_npm_reqs without a key for a managed scope has
\* emptied the requirements that scope held, has set another scope, and
\* has left the scope with its own node_modules alone.
C27_Witness ==
  /\ routed.op = "set_npm_reqs"
  /\ routed.cleared # {}
  /\ \E s \in DOMAIN by_scope :
       by_scope[s].npm_resolver = "managed" /\ by_scope[s].package_reqs # {}
  /\ \E s \in DOMAIN by_scope :
       by_scope[s].npm_resolver = "byonm" /\ by_scope[s].package_reqs = {}

\* ---------------------------------------------------------------------
\* LspCjsTracker
\* ---------------------------------------------------------------------

\* ParsedSource::compute_is_script: no import/export syntax.
ComputeIsScript(p) == ~p.esm_syntax

\* An is_cjs that puts the maybe-cjs question before the parsed source.
IsCjsMaybeFirst(known, parsed, hinted, maybe) ==
  IF known # "none"
  THEN [result |-> known = "cjs", asked |-> << >>]
  ELSE [result |-> maybe = "ok_true", asked |-> <<"is_maybe_cjs">>]

\* LspCjsTracker::is_cjs, with the questions it puts to the classifier.
\* hinted[is_script] is the answer of is_cjs_with_known_is_script and
\* maybe the answer of is_maybe_cjs.
IsCjs(known, parsed, hinted, maybe) ==
  IF known # "none"
  THEN [result |-> known = "cjs", asked |-> << >>]
  ELSE LET first == IF parsed.present
                    THEN <<"is_cjs_with_known_is_script">> ELSE << >>
           maybe_is_cjs == IF parsed.present
                           THEN hinted[ComputeIsScript(parsed)] ELSE "err"
       IN IF maybe_is_cjs # "err"
          THEN [result |-> maybe_is_cjs = "ok_true", asked |-> first]
          ELSE [result |-> maybe = "ok_true",
                asked |-> first \o <<"is_maybe_cjs">>]

\* A tracker, a classifier and the arguments of one call of is_cjs: what
\* get_known_kind answers, maybe_parsed_source (none, or a source with or
\* without import/export syntax), and what the two fallible questions to
\* the classifier answer.
CjsInit ==
  /\ headers = NoHeaders
  /\ lockfile = << >>
  /\ entries = EmptyTable
  /\ snapshot = NoSnapshot
  /\ stores = 0
  /\ last = NoCall
  /\ unscoped = DefaultLspResolver.unscoped
  /\ by_scope = DefaultLspResolver.by_scope
  /\ inserted = << >>
  /\ routed = NoRouted
  /\ tasks = << >>
  /\ walk = << >>
  /\ pkg = << >>
  /\ run = << >>
  /\ cjs \in [known : {"none", "cjs", "esm"},
              parsed : {p \in [present : BOOLEAN, esm_syntax : BOOLEAN] :
                          p.present \/ ~p.esm_syntax},
              hinted : [BOOLEAN -> {"ok_true", "ok_false", "err"}],
              maybe : {"ok_true", "ok_false", "err"},
              called : {FALSE}, result : {FALSE}, asked : {<< >>}]

IsCjsCall ==
  /\ ~cjs.called
  /\ LET out == IsCjs(cjs.known, cjs.parsed, cjs.hinted, cjs.maybe)
     IN cjs' = [cjs EXCEPT !.called = TRUE, !.result = out.result,
                           !.asked = out.asked]
  /\ UNCHANGED <<redirectVars, scopeVars, tasks, walk, pkg, run>>

SpecCjs == CjsInit /\ [][IsCjsCall]_vars

\* C21: when a classification step of is_cjs fails (the question with the
\* is_script hint was put and failed, or the maybe-cjs question was put
\* and failed), with or without a parsed source, is_cjs returns false.
C21_FailureIsEsm ==
  /\ cjs.called
  /\ \/ "is_cjs_with_known_is_script" \in Range(cjs.asked)
          /\ cjs.hinted[ComputeIsScript(cjs.parsed)] = "err"
     \/ "is_maybe_cjs" \in Range(cjs.asked) /\ cjs.maybe = "err"
  => cjs.result = FALSE

\* C22: is_cjs returns the known kind without asking the classifier;
\* otherwise, given a parsed source, the classifier's answer for the
\* is_script computed from it; otherwise the maybe-cjs answer.
C22_DecisionOrder ==
  cjs.called =>
    IF cjs.known # "none"
    THEN cjs.result = (cjs.known = "cjs") /\ cjs.asked = << >>
    ELSE IF cjs.parsed.present
    THEN LET answer == cjs.hinted[ComputeIsScript(cjs.parsed)]
         IN /\ cjs.asked[1] = "is_cjs_with_known_is_script"
            /\ answer # "err"
                 => cjs.result = (answer = "ok_true") /\ Len(cjs.asked) = 1
    ELSE /\ cjs.asked = <<"is_maybe_cjs">>
         /\ cjs.maybe # "err" => cjs.result = (cjs.maybe = "ok_true")

\* Witness of C22: a parsed source without import/export syntax, no known
\* kind, and an answer to the hinted question that is_cjs returned although
\* the maybe-cjs question would have been answered otherwise.
C22_Witness ==
  /\ cjs.called
  /\ cjs.known = "none"
  /\ cjs.parsed.present /\ ~cjs.parsed.esm_syntax
  /\ cjs.hinted[TRUE] = "ok_true"
  /\ cjs.hinted[FALSE] = "ok_false"
  /\ cjs.maybe = "ok_false"
  /\ cjs.result

\* ---------------------------------------------------------------------
\* Node resolution and the package-JSON dep index
\* ---------------------------------------------------------------------

\* LspResolver::npm_to_file_url for "npm:<name>"
NpmToFileUrl(unsc, bs, name, referrer, file_referrer) ==
  LET resolver == ScopeResolver(unsc, bs, GetScopeResolver(bs, file_referrer))
      resolved == ResolveReqReference(resolver.config_data, name, referrer)
  IN IF ~resolver.node_resolver \/ resolved = NoUrl THEN NoUrl
     ELSE IntoSpecifierAndMediaType(resolved).specifier

\* A file_url_to_package_json_dep that looks in the unscoped resolver
\* whatever the file referrer.
FileUrlToPackageJsonDepUnscoped(unsc, bs, specifier, file_referrer) ==
  IndexGet(unsc.package_json_deps_by_resolution, specifier)

\* LspResolver::file_url_to_package_json_dep
FileUrlToPackageJsonDep(unsc, bs, specifier, file_referrer) ==
  LET resolver == ScopeResolver(unsc, bs, GetScopeResolver(bs, file_referrer))
  IN IndexGet(resolver.package_json_deps_by_resolution, specifier)

\* LspResolver::is_bare_package_json_dep for the text of a package name:
\* resolve_if_for_npm_pkg finds a file or does not.
IsBarePackageJsonDep(unsc, bs, specifier_text, referrer) ==
  LET resolver == ScopeResolver(unsc, bs, GetScopeResolver(bs, referrer))
  IN IF ~resolver.node_resolver THEN FALSE
     ELSE ResolveReqReference(resolver.config_data, specifier_text,
                              referrer) # NoUrl

\* LspResolver::snapshot
LspResolverSnapshot(unsc, bs) ==
  [unscoped |-> LspScopeResolverSnapshot(unsc),
   by_scope |-> [s \in DOMAIN bs |-> LspScopeResolverSnapshot(bs[s])]]

\* The manifests of the model: the declared names in every order, and
\* every install tree.
RECURSIVE DepSeqs(_)
DepSeqs(S) ==
  {<< >>} \cup UNION {{<<n>> \o t : t \in DepSeqs(S \ {n})} : n \in S}

\* LspResolver::from_config over scopes with one manifest and one
\* install tree, with or without an HTTP client provider.
DepsFromConfig(roots, deps, installed, http_client_provider) ==
  [unscoped |->
     LspScopeResolverFromConfigData(NoConfigData, http_client_provider),
   by_scope |->
     [root \in roots |->
        LspScopeResolverFromConfigData(
          [ConfigData(root) EXCEPT
             !.pkg_json = [present |-> TRUE, dependencies |-> deps],
             !.installed = installed],
          http_client_provider)]]

DepsReferrers == {NoReferrer, <<1, 1>>, <<1, 1, 1>>, <<2, 1>>}

\* The record of the last call on the LspResolver.
NoPkgCall ==
  [op |-> "none", name |-> NoName, referrer |-> NoReferrer,
   file_referrer |-> NoReferrer, specifier |-> NoUrl, dep |-> NoName,
   bare |-> FALSE, snapshotted |-> FALSE]

DepsInit ==
  /\ headers = NoHeaders
  /\ lockfile = << >>
  /\ entries = EmptyTable
  /\ snapshot = NoSnapshot
  /\ stores = 0
  /\ last = NoCall
  /\ routed = NoRouted
  /\ tasks = << >>
  /\ walk = << >>
  /\ cjs = << >>
  /\ pkg = NoPkgCall
  /\ run = << >>
  /\ inserted = << >>
  /\ \/ /\ unscoped = DefaultLspResolver.unscoped
        /\ by_scope = DefaultLspResolver.by_scope
     \/ \E roots \in {{<<2>>}, {<<1>>, <<1, 1>>}},
           deps \in DepSeqs(DepNames),
           installed \in [DepNames -> {PkgFile(1), PkgFile(2), NoUrl}],
           http_client_provider \in BOOLEAN :
          LET r == DepsFromConfig(roots, deps, installed,
                                  http_client_provider)
          IN unscoped = r.unscoped /\ by_scope = r.by_scope

NpmToFileUrlCall(name, referrer, file_referrer) ==
  /\ pkg' = [NoPkgCall EXCEPT
               !.op = "npm_to_file_url", !.name = name,
               !.referrer = referrer, !.file_referrer = file_referrer,
               !.specifier = NpmToFileUrl(unscoped, by_scope, name, referrer,
                                          file_referrer),
               !.snapshotted = pkg.snapshotted]
  /\ UNCHANGED <<redirectVars, scopeVars, tasks, walk, cjs, run>>

\* file_url_to_package_json_dep of the URL that the npm_to_file_url before
\* it returned.
FileUrlToPackageJsonDepCall ==
  /\ pkg.op = "npm_to_file_url"
  /\ pkg.specifier # NoUrl
  /\ pkg' = [pkg EXCEPT
               !.op = "file_url_to_package_json_dep",
               !.dep = FileUrlToPackageJsonDep(unscoped, by_scope,
                                               pkg.specifier,
                                               pkg.file_referrer)]
  /\ UNCHANGED <<redirectVars, scopeVars, tasks, walk, cjs, run>>

IsBarePackageJsonDepCall(specifier_text, referrer) ==
  /\ pkg' = [NoPkgCall EXCEPT
               !.op = "is_bare_package_json_dep", !.name = specifier_text,
               !.referrer = referrer, !.file_referrer = referrer,
               !.bare = IsBarePackageJsonDep(unscoped, by_scope,
                                             specifier_text, referrer),
               !.snapshotted = pkg.snapshotted]
  /\ UNCHANGED <<redirectVars, scopeVars, tasks, walk, cjs, run>>

\* LspResolver::snapshot; the calls that follow are made on the snapshot.
SnapshotCall ==
  /\ ~pkg.snapshotted
  /\ unscoped' = LspResolverSnapshot(unscoped, by_scope).unscoped
  /\ by_scope' = LspResolverSnapshot(unscoped, by_scope).by_scope
  /\ pkg' = [NoPkgCall EXCEPT !.op = "snapshot", !.snapshotted = TRUE]
  /\ UNCHANGED <<redirectVars, inserted, routed, tasks, walk, cjs, run>>

DepsNext ==
  \/ \E name \in DepNames, referrer \in DepsReferrers \ {NoReferrer} :
       \E file_referrer \in {NoReferrer, referrer} :
         NpmToFileUrlCall(name, referrer, file_referrer)
  \/ FileUrlToPackageJsonDepCall
  \/ \E name \in DepNames, referrer \in DepsReferrers \ {NoReferrer} :
       IsBarePackageJsonDepCall(name, referrer)
  \/ SnapshotCall

SpecDeps == DepsInit /\ [][DepsNext]_vars

\* The scope the last call was routed to, its config data, and the names
\* its manifest declares.
CallScope == GetScopeResolver(by_scope, pkg.file_referrer)
CallConfigData == ScopeResolver(unscoped, by_scope, CallScope).config_data
Declared == CallConfigData.pkg_json.dependencies

\* The declared names that resolve to a file from the manifest, and the
\* place of a name in the manifest.
ResolvingTo(u) ==
  {n \in Range(Declared) :
     ResolveReqReference(CallConfigData, n,
                         PkgJsonSpecifier(CallConfigData)) = u}
Place(n) == CHOOSE i \in DOMAIN Declared : Declared[i] = n

\* The last call asked for the declared name of the file that
\* npm_to_file_url had returned for a declared name, with the manifest as
\* referrer, in the scope of the manifest.
RoundTrip ==
  /\ pkg.op = "file_url_to_package_json_dep"
  /\ CallScope # NoScope
  /\ pkg.name \in Range(Declared)
  /\ pkg.referrer = PkgJsonSpecifier(CallConfigData)

\* C23 (as stated): the round trip of a declared name that resolves yields
\* that name.
C23_RoundTripYieldsName ==
  RoundTrip => pkg.dep = pkg.name

\* C23 (amended): the round trip of a declared name that resolves yields
\* that name when no name declared after it resolves to the same file,
\* and otherwise a name declared after it.
C23_RoundTripUnlessShadowed ==
  RoundTrip =>
    IF \E n \in ResolvingTo(pkg.specifier) : Place(n) > Place(pkg.name)
    THEN pkg.dep \in ResolvingTo(pkg.specifier)
         /\ Place(pkg.dep) > Place(pkg.name)
    ELSE pkg.dep = pkg.name

\* Witness of C23: a round trip gave back the second of two declared
\* names that resolve to different files.
C23_Witness ==
  /\ RoundTrip
  /\ pkg.dep = pkg.name
  /\ Len(Declared) > 1
  /\ pkg.name = Declared[2]
  /\ ResolvingTo(pkg.specifier) = {pkg.name}
  /\ \E n \in Range(Declared) : ResolvingTo(PkgFile(n)) = {Declared[1]}

\* C30: when two or more declared names resolve to one file, the index
\* gives for that file the name declared last among them.
C30_LaterNameWins ==
  /\ pkg.op = "file_url_to_package_json_dep"
  /\ CallScope # NoScope
  /\ Cardinality(ResolvingTo(pkg.specifier)) > 1
  => /\ pkg.dep \in ResolvingTo(pkg.specifier)
     /\ \A n \in ResolvingTo(pkg.specifier) : Place(n) <= Place(pkg.dep)

\* Witness of C30: the file that npm_to_file_url returned for the first
\* declared name is mapped to the name declared after it.
C30_Witness ==
  /\ RoundTrip
  /\ Cardinality(ResolvingTo(pkg.specifier)) > 1
  /\ pkg.name = Declared[1]
  /\ pkg.dep = Declared[2]

\* C28: in a scope resolver made by default, by from_config_data or by
\* snapshot the node resolver and the CJS tracker are present exactly when
\* the package resolver is; where they are absent npm_to_file_url returns
\* none and is_bare_package_json_dep returns false.
C28_NodePartsFollowNpmResolver ==
  /\ \A s \in {NoScope} \cup DOMAIN by_scope :
       \A r \in {ScopeResolver(unscoped, by_scope, s),
                  LspScopeResolverSnapshot(
                    ScopeResolver(unscoped, by_scope, s))} :
         /\ r.node_resolver <=> r.npm_resolver # "none"
         /\ r.cjs_tracker <=> r.npm_resolver # "none"
  /\ \A file_referrer \in DepsReferrers :
       ~ScopeResolver(unscoped, by_scope,
                      GetScopeResolver(by_scope, file_referrer)).node_resolver
       => \A name \in DepNames, referrer \in DepsReferrers \ {NoReferrer} :
            /\ NpmToFileUrl(unscoped, by_scope, name, referrer,
                            file_referrer) = NoUrl
            /\ file_referrer # NoReferrer
                 => ~IsBarePackageJsonDep(unscoped, by_scope, name,
                                          file_referrer)
  /\ ~ScopeResolver(unscoped, by_scope, CallScope).node_resolver
       => pkg.specifier = NoUrl /\ ~pkg.bare

\* Witness of C28: on the snapshot of a resolver built without an HTTP
\* client provider, is_bare_package_json_dep answered false for a name
\* that the install tree of the referrer's scope holds.
C28_Witness ==
  /\ pkg.snapshotted
  /\ pkg.op = "is_bare_package_json_dep"
  /\ CallScope # NoScope
  /\ by_scope[CallScope].npm_resolver = "none"
  /\ ~by_scope[CallScope].node_resolver
  /\ ~by_scope[CallScope].cjs_tracker
  /\ ResolveReqReference(CallConfigData, pkg.name, pkg.referrer) # NoUrl
  /\ ~pkg.bare

\* ---------------------------------------------------------------------
\* The did-cache signal
\* ---------------------------------------------------------------------

\* LspResolver::jsr_to_resource_url: the registry resolver of the
\* referrer's scope, if there is one, memoizes what it reads from the
\* cache.
JsrToResourceUrlCall(file_referrer) ==
  LET scope == GetScopeResolver(by_scope, file_referrer)
      resolver == ScopeResolver(unscoped, by_scope, scope) IN
  /\ unscoped' = IF scope = NoScope /\ resolver.jsr_resolver
                 THEN [unscoped EXCEPT !.jsr_memo = TRUE]
                 ELSE unscoped
  /\ by_scope' = IF scope # NoScope /\ resolver.jsr_resolver
                 THEN [by_scope EXCEPT ![scope].jsr_memo = TRUE]
                 ELSE by_scope
  /\ routed' = [NoRouted EXCEPT !.op = "jsr_to_resource_url",
                                !.referrer = file_referrer,
                                !.scope = scope]
  /\ UNCHANGED <<redirectVars, tasks, auxVars, inserted>>

SignalsNext ==
  \/ \E r \in FileReferrers \cup {NoReferrer} : JsrToResourceUrlCall(r)
  \/ \E u \in ScopedQueries :
       \E r \in FileReferrers \cup {NoReferrer} : ResolveRedirectsCall(u, r)
  \/ DidCacheAll

SpecSignals == ScopesInit /\ [][SignalsNext]_vars

\* C29: did_cache signals the redirect resolver and the registry resolver
\* of the unscoped resolver and of every scoped resolver that has them; a
\* resolver without them is left as it is and the call completes.
C29_DidCacheReachesEveryScope ==
  [][routed'.op = "did_cache" =>
       /\ DOMAIN by_scope' = DOMAIN by_scope
       /\ \A s \in {NoScope} \cup DOMAIN by_scope :
            LET before == ScopeResolver(unscoped, by_scope, s)
                after == ScopeResolver(unscoped', by_scope', s)
            IN /\ before.redirect_resolver
                    => /\ DOMAIN after.entries =
                            {u \in DOMAIN before.entries :
                               before.entries[u].kind = "some"}
                       /\ \A u \in DOMAIN after.entries :
                            after.entries[u] = before.entries[u]
               /\ before.jsr_resolver => ~after.jsr_memo
               /\ ~before.redirect_resolver /\ ~before.jsr_resolver
                    => after = before]_vars

\* Witness of C29: a did_cache dropped the registry memo of the unscoped
\* resolver and of two scoped resolvers, and took the markers out of
\* their redirect tables.
C29_Witness ==
  /\ routed.op = "did_cache"
  /\ NoScope \in routed.cleared
  /\ Cardinality(routed.cleared \cap DOMAIN by_scope) > 1
  /\ \A s \in routed.cleared :
       LET r == ScopeResolver(unscoped, by_scope, s)
       IN /\ DOMAIN r.entries # {}
          /\ \A u \in DOMAIN r.entries : r.entries[u].kind = "some"

\* ---------------------------------------------------------------------
\* run_script (src/deno_lib/lib.rs)
\* ---------------------------------------------------------------------

\* The prefixes that run_script looks for in the text of a script error.
MODULE_NOT_FOUND == "Module not found"
UNSUPPORTED_SCHEME == "Unsupported scheme"

\* What tools::run::run_script or tools::task::execute_script, called by
\* `from`, returns: an exit code, or an error of a type with the text that
\* to_string() gives for it, the text in two parts so that starts_with is
\* a test of the first.
Outcomes(from) ==
  {[ok |-> TRUE, code |-> c, type |-> "none", text |-> << >>, from |-> from] :
     c \in {0, 1}}
  \cup
  {[ok |-> FALSE, code |-> 0, type |-> e[1], text |-> <<e[2], "..">>,
    from |-> from] :
     e \in {<<"UnmatchedReq", "Could not find a matching package">>,
            <<"other", MODULE_NOT_FOUND>>,
            <<"other", UNSUPPORTED_SCHEME>>,
            <<"other", "Uncaught Error">>}}

\* A run_script that returns the error of the task when the task fails.
RunScriptTaskError(f) ==
  IF f.script.ok THEN [result |-> f.script, calls |-> <<"run">>]
  ELSE IF f.script.type = "UnmatchedReq" /\ ~f.node_modules_dir
  THEN [result |-> f.rerun, calls |-> <<"run", "run">>]
  ELSE IF f.script.text[1] \in {MODULE_NOT_FOUND, UNSUPPORTED_SCHEME}
  THEN IF f.bare
       THEN [result |-> IF f.suggestions
                        THEN [f.script EXCEPT !.type = "InvalidSubcommand",
                                              !.text = <<"error", "..">>,
                                              !.from = "clap"]
                        ELSE f.script,
             calls |-> <<"run">>]
       ELSE [result |-> f.task, calls |-> <<"run", "task">>]
  ELSE [result |-> f.script, calls |-> <<"run">>]

\* The future that run_script spawns for DenoSubcommand::Run, with the
\* calls it makes: f.script is the outcome of running the script, f.rerun
\* of running it again without node_modules directory, f.task of running
\* the script name as a task; f.suggestions says whether did_you_mean
\* finds a subcommand.
RunScript(f) ==
  IF f.script.ok THEN [result |-> f.script, calls |-> <<"run">>]
  ELSE IF f.script.type = "UnmatchedReq" /\ ~f.node_modules_dir
  THEN [result |-> f.rerun, calls |-> <<"run", "run">>]
  ELSE IF f.script.text[1] \in {MODULE_NOT_FOUND, UNSUPPORTED_SCHEME}
  THEN IF f.bare
       THEN [result |-> IF f.suggestions
                        THEN [f.script EXCEPT !.type = "InvalidSubcommand",
                                              !.text = <<"error", "..">>,
                                              !.from = "clap"]
                        ELSE f.script,
             calls |-> <<"run">>]
       ELSE [result |-> IF f.task.ok THEN f.task ELSE f.script,
             calls |-> <<"run", "task">>]
  ELSE [result |-> f.script, calls |-> <<"run">>]

\* The flags of a run and what the script and the task would do.
RunInit ==
  /\ headers = NoHeaders
  /\ lockfile = << >>
  /\ entries = EmptyTable
  /\ snapshot = NoSnapshot
  /\ stores = 0
  /\ last = NoCall
  /\ unscoped = DefaultLspResolver.unscoped
  /\ by_scope = DefaultLspResolver.by_scope
  /\ inserted = << >>
  /\ routed = NoRouted
  /\ tasks = << >>
  /\ walk = << >>
  /\ cjs = << >>
  /\ pkg = << >>
  /\ run \in [bare : BOOLEAN, node_modules_dir : BOOLEAN,
              suggestions : BOOLEAN, script : Outcomes("script"),
              rerun : Outcomes("rerun"), task : Outcomes("task"),
              called : {FALSE}, result : {<< >>}, calls : {<< >>}]

RunScriptCall ==
  /\ ~run.called
  /\ run' = [run EXCEPT !.called = TRUE, !.result = RunScript(run).result,
                        !.calls = RunScript(run).calls]
  /\ UNCHANGED <<redirectVars, scopeVars, tasks, walk, cjs, pkg>>

SpecRun == RunInit /\ [][RunScriptCall]_vars

\* C31: when the script fails with a module-not-found or unsupported-scheme
\* error and the run is not bare, run_script runs the script name once as
\* a task; it returns the result of the task when that succeeds and the
\* error of the script, not that of the task, when it fails.
C31_TaskRetryKeepsScriptError ==
  /\ run.called
  /\ ~run.script.ok
  /\ run.script.text[1] \in {MODULE_NOT_FOUND, UNSUPPORTED_SCHEME}
  /\ ~run.bare
  => /\ run.calls = <<"run", "task">>
     /\ run.result = IF run.task.ok THEN run.task ELSE run.script

\* Witness of C31: the script was not found, the task of that name failed
\* with an error of its own, and run_script returned the error of the
\* script.
C31_Witness ==
  /\ run.called
  /\ ~run.bare
  /\ ~run.script.ok /\ run.script.text[1] = MODULE_NOT_FOUND
  /\ ~run.task.ok /\ run.task.text[1] = "Uncaught Error"
  /\ run.calls = <<"run", "task">>
  /\ run.result.from = "script"
  /\ run.result = run.script

====
